---- MODULE Spec2Model ----
(***************************************************************************)
(* IrisAlerter (elastalert/alerters/iris.py): the submission protocol of   *)
(* alert(): mode dispatch on iris_type, the alert-creation POST, the       *)
(* case-creation POST and the sequential IOC-attach loop, together with    *)
(* make_iocs_records and the objects (dicts) it copies and mutates.        *)
(*                                                                         *)
(* Python values are modelled as follows.  A str that the code searches    *)
(* (iris_type) is a sequence of one-character strings.  A dict is a        *)
(* function from its keys to its values.  Dicts live in a heap indexed by  *)
(* references, so that aliasing and record.copy() are explicit.  None is   *)
(* the value None below.  Each requests.post call, with the handling of    *)
(* its response up to the next blocking call, is one step.                 *)
(***************************************************************************)
EXTENDS Integers, Sequences, FiniteSets, TLC

VARIABLES
    type,               \* self.type
    ca_cert,            \* self.ca_cert
    ignore_ssl_errors,  \* self.ignore_ssl_errors
    self_iocs,          \* self.iocs: None (none = TRUE), or a list of references to
                        \* the template dicts
    heap,               \* the dict objects, by reference
    warnings_disabled,  \* process-wide urllib3 warning filter installed by disable_warnings()
    pc,                 \* position of alert(): Idle, AlertSubmit, CaseSubmit, IocLinking
    match,              \* matches[0] of the running (or last) invocation
    verify,             \* local verify
    iocs,               \* local iocs: list of references
    payload,            \* local alert_data or case_data
    case_id,            \* local case_id
    i,                  \* position of the for loop over iocs (1-based)
    log,                \* HTTP calls of the running (or last) invocation, in order
    outcome,            \* none | running | returned | raised
    err,                \* the exception raised by the last invocation
    iocs0,              \* the IOC templates as configured at construction
    prev                \* history: match and HTTP calls of the invocation before the
                        \* running (or last) one, when a specification records it

vars == <<type, ca_cert, ignore_ssl_errors, self_iocs, heap, warnings_disabled,
          pc, match, verify, iocs, payload, case_id, i, log, outcome, err, iocs0, prev>>

config == <<type, ca_cert, ignore_ssl_errors, self_iocs, iocs0>>

-----------------------------------------------------------------------------
(* Bounds and value sets *)

MaxIocs == 3

None == "<None>"
Free == [free |-> TRUE]

TemplateRefs == 1..MaxIocs
LocalRefs == (MaxIocs + 1)..(2 * MaxIocs)
Refs == TemplateRefs \cup LocalRefs

Fields == {"src_ip", "domain"}
ValueOf == [f \in Fields |-> IF f = "src_ip" THEN "10.0.0.1" ELSE "evil.example"]

\* matches[0]: each field absent, present and empty, or present with a value
Matches == UNION {[S -> {"", "10.0.0.1", "evil.example"}] : S \in SUBSET Fields}
FirstMatches == {m \in Matches : \A f \in DOMAIN m : m[f] \in {"", ValueOf[f]}}

S_alert == <<"a", "l", "e", "r", "t">>
S_case == <<"c", "a", "s", "e">>
Modes == { S_alert,
           S_case,
           S_case \o S_alert,
           <<"A", "l", "e", "r", "t">>,
           <<"C", "A", "S", "E">>,
           <<"i", "r", "i", "s">> }

HTTP_OK == 200
ALERTS_ADD == "/alerts/add"
CASES_ADD == "/manage/cases/add"
IOC_ADD == "/case/ioc/add"
StatusCodes == {200, 404, 500}
TransportErrors == {"ConnectionError", "Timeout", "SSLError"}
CaseIds == {"101", "102"}

NoBody == [shape |-> "none", case_id |-> None]
\* JSON bodies of a 200 case-creation response
CaseBodies == {[shape |-> "data.case_id", case_id |-> c] : c \in CaseIds}
              \cup {[shape |-> "data", case_id |-> None],
                    [shape |-> "no data", case_id |-> None],
                    [shape |-> "not json", case_id |-> None]}

\* what requests.post does: returns a response or raises a RequestException
Response(code, body) == [exc |-> None, status_code |-> code, body |-> body]
Raises(e) == [exc |-> e, status_code |-> 0, body |-> NoBody]
PlainOutcomes == {Response(c, NoBody) : c \in StatusCodes} \cup {Raises(e) : e \in TransportErrors}
CaseOutcomes == {Response(c, NoBody) : c \in StatusCodes \ {HTTP_OK}}
                \cup {Response(HTTP_OK, b) : b \in CaseBodies}
                \cup {Raises(e) : e \in TransportErrors}

-----------------------------------------------------------------------------
(* Python helpers *)

\* sub in s.lower()
ContainsFold(sub, s) ==
    LET low(c) == CASE c = "A" -> "a" [] c = "L" -> "l" [] c = "E" -> "e"
                    [] c = "R" -> "r" [] c = "T" -> "t" [] c = "C" -> "c"
                    [] c = "S" -> "s" [] c = "I" -> "i" [] OTHER -> c
        t == [k \in 1..Len(s) |-> low(s[k])]
    IN \E k \in 0..(Len(t) - Len(sub)) : SubSeq(t, k + 1, k + Len(sub)) = sub

\* sub in s, for str: a case-sensitive search
Contains(sub, s) ==
    \E k \in 0..(Len(s) - Len(sub)) : SubSeq(s, k + 1, k + Len(sub)) = sub

\* str.lower(), used to state the claims only
Lower(s) ==
    LET low(c) == CASE c = "A" -> "a" [] c = "L" -> "l" [] c = "E" -> "e"
                    [] c = "R" -> "r" [] c = "T" -> "t" [] c = "C" -> "c"
                    [] c = "S" -> "s" [] c = "I" -> "i" [] OTHER -> c
    IN [k \in 1..Len(s) |-> low(s[k])]

\* d[k] = v, d.update({k: v})
SetItem(d, k, v) == [x \in (DOMAIN d) \cup {k} |-> IF x = k THEN v ELSE d[x]]

\* elastalert.util.lookup_es_key
lookup_es_key(m, term) == IF term \in DOMAIN m THEN m[term] ELSE None

\* truthiness of self.iocs
IocsConfigured == ~self_iocs.none /\ Len(self_iocs.list) > 0

\* An exception: its class, the literal text of its message and the values the
\* f-string interpolates into it (interpolated names which of them are present)
Exception(cls, text, names, code, cid, cause) ==
    [type |-> cls, text |-> text, interpolated |-> names,
     status_code |-> code, case_id |-> cid, e |-> cause]
EAException(text, names, code, cid, cause) ==
    Exception("EAException", text, names, code, cid, cause)
NoErr == Exception(None, "", {}, 0, None, None)

-----------------------------------------------------------------------------
(* make_iocs_records *)

FreshRef(h) == CHOOSE r \in LocalRefs : h[r] = Free /\ \A q \in LocalRefs : q < r => h[q] # Free

RecordCopyAlias(record, fresh) == record

\* record.copy(): the reference of the new dict
RecordCopy(record, fresh) == fresh

RECURSIVE make_iocs_loop(_, _, _, _)
make_iocs_loop(h, m, k, acc) ==
    IF k > Len(self_iocs.list) THEN [heap |-> h, iocs |-> acc]
    ELSE LET record == self_iocs.list[k]
             record_data == RecordCopy(record, FreshRef(h))
             h1 == [h EXCEPT ![record_data] = h[record]]
             h2 == [h1 EXCEPT ![record_data] =
                       SetItem(h1[record_data], "ioc_value",
                               lookup_es_key(m, h1[record]["ioc_value"]))]
         IN IF h2[record_data]["ioc_value"] # None
            THEN make_iocs_loop(h2, m, k + 1, Append(acc, record_data))
            ELSE make_iocs_loop(h2, m, k + 1, acc)

make_iocs_records(h, m) == make_iocs_loop(h, m, 1, <<>>)

\* make_alert: the keys of alert_data that depend on the IOC configuration
make_alert(h, m) ==
    LET alert_data == [alert_source |-> "ElastAlert2"]
    IN IF IocsConfigured
       THEN LET r == make_iocs_records(h, m)
            IN [heap |-> r.heap, iocs |-> r.iocs,
                data |-> SetItem(alert_data, "alert_iocs", r.iocs)]
       ELSE [heap |-> h, iocs |-> <<>>, data |-> alert_data]

\* make_case: case_data and the IOC record list
make_case(h, m) ==
    LET case_data == [case_name |-> "rule"]
    IN IF IocsConfigured
       THEN LET r == make_iocs_records(h, m)
            IN [heap |-> r.heap, iocs |-> r.iocs, data |-> case_data]
       ELSE [heap |-> h, iocs |-> <<>>, data |-> case_data]

\* json=...: the body as serialised when the call is made
Deref(h, refs) == [k \in 1..Len(refs) |-> h[refs[k]]]
Dump(h, data) ==
    IF "alert_iocs" \in DOMAIN data
    THEN SetItem(data, "alert_iocs", Deref(h, data["alert_iocs"]))
    ELSE data

-----------------------------------------------------------------------------
(* alert() *)

\* verify, as a str: the CA bundle path, or the bool
Verify == IF ca_cert # None THEN ca_cert
          ELSE IF ~ignore_ssl_errors THEN "True" ELSE "False"

DispatchCaseFirst(t) ==
    IF Contains(S_case, t) THEN "case"
    ELSE IF Contains(S_alert, t) THEN "alert" ELSE "none"

\* if 'alert' in self.type: ... elif 'case' in self.type: ...
Dispatch(t) ==
    IF Contains(S_alert, t) THEN "alert"
    ELSE IF Contains(S_case, t) THEN "case" ELSE "none"

\* if alert_response.status_code != 200: raise
AlertStatusRaises(code) == code # HTTP_OK

CaseStatusOkAlways(code) == TRUE

\* if case_response.status_code == 200: ... else: raise
CaseStatusOk(code) == code = HTTP_OK

IocStatusRaisesNever(code) == FALSE

\* if response_ioc.status_code != 200: raise
IocStatusRaises(code) == code # HTTP_OK

IocUpdateSkipped(d, cid) == d

\* ioc.update({"cid": case_id})
IocUpdate(d, cid) == SetItem(d, "cid", cid)

WrappedReraised(text, names, cid, e) == Exception(e, text, names, 0, cid, e)

\* except RequestException as e: raise EAException(f"...: {e}")
Wrapped(text, names, cid, e) == EAException(text, names \cup {"e"}, 0, cid, e)

Call(url, body, r) == [url |-> url, verify |-> verify, json |-> body, resp |-> r]

\* Entry of alert() up to the first blocking call: lines 173-182 / 199-200
Enter(m) ==
    /\ pc = "Idle"
    /\ match' = m
    /\ verify' = Verify
    /\ warnings_disabled' = (warnings_disabled \/ ignore_ssl_errors)
    /\ log' = <<>>
    /\ err' = NoErr
    /\ case_id' = None
    /\ i' = 0

\* locals of the previous invocation are garbage by now
Collected == [r \in Refs |-> IF r \in LocalRefs THEN Free ELSE heap[r]]

AlertMode(m) ==
    /\ Enter(m)
    /\ Dispatch(type) = "alert"
    /\ LET a == make_alert(Collected, m)
       IN /\ heap' = a.heap
          /\ iocs' = a.iocs
          /\ payload' = a.data
    /\ pc' = "AlertSubmit"
    /\ outcome' = "running"
    /\ UNCHANGED config

CaseMode(m) ==
    /\ Enter(m)
    /\ Dispatch(type) = "case"
    /\ LET c == make_case(Collected, m)
       IN /\ heap' = c.heap
          /\ iocs' = c.iocs
          /\ payload' = c.data
    /\ pc' = "CaseSubmit"
    /\ outcome' = "running"
    /\ UNCHANGED config

\* neither branch: alert() falls off its end
NoSubmission(m) ==
    /\ Enter(m)
    /\ Dispatch(type) = "none"
    /\ heap' = Collected
    /\ iocs' = <<>>
    /\ payload' = [k \in {} |-> ""]
    /\ pc' = "Idle"
    /\ outcome' = "returned"
    /\ UNCHANGED config

Raise(e) ==
    /\ err' = e
    /\ outcome' = "raised"
    /\ pc' = "Idle"

Return ==
    /\ err' = NoErr
    /\ outcome' = "returned"
    /\ pc' = "Idle"

\* lines 184-197
PostAlert(r) ==
    /\ pc = "AlertSubmit"
    /\ log' = Append(log, Call(ALERTS_ADD, Dump(heap, payload), r))
    /\ IF r.exc # None
       THEN Raise(Wrapped("Error posting alert to Iris", {}, None, r.exc))
       ELSE IF AlertStatusRaises(r.status_code)
       THEN Raise(EAException("Cannot create a new alert",
                              {"alert_response.status_code"}, r.status_code, None, None))
       ELSE Return
    /\ UNCHANGED <<config, heap, warnings_disabled, match, verify, iocs, case_id, i, payload>>

\* lines 202-213 and 236-241, up to the first IOC-attach call
PostCase(r) ==
    /\ pc = "CaseSubmit"
    /\ log' = Append(log, Call(CASES_ADD, Dump(heap, payload), r))
    /\ IF r.exc # None
       THEN /\ Raise(Wrapped("Error posting the case to Iris", {}, None, r.exc))
            /\ UNCHANGED <<case_id, i>>
       ELSE IF ~CaseStatusOk(r.status_code)
       THEN /\ Raise(EAException("Cannot create a new case",
                                 {"case_response.status_code"}, r.status_code, None, None))
            /\ UNCHANGED <<case_id, i>>
       ELSE IF r.body.shape = "not json"
       THEN \* case_response.json() raises: requests.JSONDecodeError is a
            \* RequestException from requests 2.27 on, a plain ValueError before
            /\ \/ Raise(Wrapped("Error posting the case to Iris", {}, None, "JSONDecodeError"))
               \/ Raise(Exception("ValueError", "", {}, 0, None, None))
            /\ UNCHANGED <<case_id, i>>
       ELSE IF r.body.shape = "no data"
       THEN \* case_response_data.get('data', '').get('case_id'): '' has no get
            /\ Raise(Exception("AttributeError", "", {}, 0, None, None))
            /\ UNCHANGED <<case_id, i>>
       ELSE /\ case_id' = r.body.case_id
            /\ IF Len(iocs) = 0
               THEN Return /\ UNCHANGED i
               ELSE /\ i' = 1
                    /\ pc' = "IocLinking"
                    /\ UNCHANGED <<err, outcome>>
    /\ UNCHANGED <<config, heap, warnings_disabled, match, verify, iocs, payload>>

\* one iteration of the loop, lines 214-234
PostIoc(r) ==
    /\ pc = "IocLinking"
    /\ LET ioc == iocs[i]
       IN /\ heap' = [heap EXCEPT ![ioc] = IocUpdate(heap[ioc], case_id)]
          /\ log' = Append(log, Call(IOC_ADD, heap'[ioc], r))
    /\ IF r.exc # None
       THEN /\ Raise(Wrapped("Error when adding IOC to the case", {"case_id"}, case_id, r.exc))
            /\ UNCHANGED i
       ELSE IF IocStatusRaises(r.status_code)
       THEN /\ Raise(EAException("Unable to add a new IOC to the case",
                                 {"case_id"}, 0, case_id, None))
            /\ UNCHANGED i
       ELSE IF i = Len(iocs)
       THEN Return /\ UNCHANGED i
       ELSE /\ i' = i + 1
            /\ UNCHANGED <<pc, err, outcome>>
    /\ UNCHANGED <<config, warnings_disabled, match, verify, iocs, case_id, payload>>

-----------------------------------------------------------------------------

NoPrev == [set |-> FALSE, match |-> [f \in {} |-> ""], log |-> <<>>]

\* The alerter after __init__ (lines 14-36), before any invocation, for the
\* given values of iris_type, iris_ca_cert, iris_ignore_ssl_errors and at most
\* maxn entries of iris_iocs
Constructed(modes, certs, flags, maxn) ==
    /\ type \in modes
    /\ ca_cert \in certs
    /\ ignore_ssl_errors \in flags
    /\ \E n \in 0..maxn :
         \E f \in [1..n -> Fields] :
           /\ self_iocs \in [none : BOOLEAN, list : {[k \in 1..n |-> k]}]
           /\ self_iocs.none => n = 0
           /\ heap = [r \in Refs |-> IF r \in 1..n
                                     THEN [ioc_value |-> f[r], ioc_type_id |-> r]
                                     ELSE Free]
           /\ iocs0 = [r \in 1..n |-> [ioc_value |-> f[r], ioc_type_id |-> r]]
    /\ warnings_disabled = FALSE
    /\ pc = "Idle"
    /\ match = [f \in {} |-> ""]
    /\ verify = None
    /\ iocs = <<>>
    /\ payload = [k \in {} |-> ""]
    /\ case_id = None
    /\ i = 0
    /\ log = <<>>
    /\ outcome = "none"
    /\ err = NoErr
    /\ prev = NoPrev

Init == Constructed(Modes, {None, "/etc/iris/ca.pem"}, BOOLEAN, MaxIocs)

Next ==
    \/ \E m \in FirstMatches : AlertMode(m) /\ UNCHANGED prev
    \/ \E m \in FirstMatches : CaseMode(m) /\ UNCHANGED prev
    \/ \E m \in FirstMatches : NoSubmission(m) /\ UNCHANGED prev
    \/ \E r \in PlainOutcomes : PostAlert(r) /\ UNCHANGED prev
    \/ \E r \in CaseOutcomes : PostCase(r) /\ UNCHANGED prev
    \/ \E r \in PlainOutcomes : PostIoc(r) /\ UNCHANGED prev

Spec == Init /\ [][Next]_vars

\* The same alerter, with the history prev: when an invocation starts with the
\* match of the one before it, that invocation's calls are remembered, and they
\* are kept for as long as the running invocation receives the same responses
Remember(m) ==
    prev' = IF outcome # "none" /\ m = match
            THEN [set |-> TRUE, match |-> match, log |-> log]
            ELSE NoPrev

KeepWhileRepeated(r) ==
    prev' = IF prev.set /\ Len(log) < Len(prev.log) /\ prev.log[Len(log) + 1].resp = r
            THEN prev
            ELSE NoPrev

InitReplay == Constructed({S_alert, S_case, <<"i", "r", "i", "s">>}, {None}, {TRUE}, MaxIocs)

NextReplay ==
    \/ \E m \in FirstMatches : AlertMode(m) /\ Remember(m)
    \/ \E m \in FirstMatches : CaseMode(m) /\ Remember(m)
    \/ \E m \in FirstMatches : NoSubmission(m) /\ Remember(m)
    \/ \E r \in PlainOutcomes : PostAlert(r) /\ KeepWhileRepeated(r)
    \/ \E r \in CaseOutcomes : PostCase(r) /\ KeepWhileRepeated(r)
    \/ \E r \in PlainOutcomes : PostIoc(r) /\ KeepWhileRepeated(r)

SpecReplay == InitReplay /\ [][NextReplay]_vars

-----------------------------------------------------------------------------
(* Vocabulary of the properties *)

Invoked == outcome # "none"
Completed == pc = "Idle" /\ outcome \in {"returned", "raised"}
Got200(c) == c.resp.exc = None /\ c.resp.status_code = 200
GotOtherStatus(c) == c.resp.exc = None /\ c.resp.status_code # 200
IocCallCount == Cardinality({k \in 1..Len(log) : log[k].url = IOC_ADD})
HasWord(sub, s) == \E k \in 0..(Len(s) - Len(sub)) : SubSeq(s, k + 1, k + Len(sub)) = sub

-----------------------------------------------------------------------------

\* C1: in case mode the k-th IOC-attach POST is the one for the k-th IOC record,
\* it is issued only after every earlier IOC-attach POST returned 200, and once an
\* IOC-attach POST returns a non-200 status the invocation has failed and no later
\* record is posted.
C1_SequentialFailFast ==
    \A k \in 2..Len(log) :
        /\ log[k].url = IOC_ADD
        /\ k - 1 <= Len(iocs)
        /\ log[k].json = heap[iocs[k - 1]]
        /\ \A j \in 2..(k - 1) : Got200(log[j])
        /\ GotOtherStatus(log[k]) =>
               /\ k = Len(log)
               /\ Completed /\ outcome = "raised"
               /\ ~ENABLED (\E r \in PlainOutcomes : PostIoc(r))

\* three IOC records, the first IOC-attach POST returned 404: one IOC-attach call
C1_Witness ==
    /\ Len(iocs) = 3
    /\ Len(log) = 2
    /\ Got200(log[1])
    /\ log[2].url = IOC_ADD /\ log[2].resp.status_code = 404
    /\ Completed /\ outcome = "raised"

\* C2: a creation POST answered with a status other than 200 ends the invocation
\* with an EAException whose message carries that status code; it is the only
\* HTTP call of the invocation.
C2_CreationFailureStops ==
    (Len(log) >= 1 /\ GotOtherStatus(log[1])) =>
        /\ Len(log) = 1
        /\ Completed /\ outcome = "raised"
        /\ err.type = "EAException"
        /\ \E n \in err.interpolated : n \in {"alert_response.status_code",
                                              "case_response.status_code"}
        /\ err.status_code = log[1].resp.status_code

C2_Witness ==
    /\ Len(log) = 1
    /\ log[1].url = CASES_ADD /\ log[1].resp.status_code = 500
    /\ Len(iocs) = 2
    /\ outcome = "raised" /\ err.status_code = 500

\* C3: the mode string decides the creation call, "alert" first: with "alert" in
\* the mode one alert-creation POST and nothing else; otherwise with "case" in the
\* mode one case-creation POST and no alert-creation POST; with neither, no HTTP
\* call and a normal return.
C3_ExclusiveBranches ==
    Invoked =>
        /\ HasWord(S_alert, type) =>
               /\ Len(log) <= 1
               /\ \A k \in 1..Len(log) : log[k].url = ALERTS_ADD
               /\ Completed => Len(log) = 1
        /\ (~HasWord(S_alert, type) /\ HasWord(S_case, type)) =>
               /\ \A k \in 1..Len(log) : log[k].url = (IF k = 1 THEN CASES_ADD ELSE IOC_ADD)
               /\ (Completed \/ pc = "IocLinking") => Len(log) >= 1
        /\ (~HasWord(S_alert, type) /\ ~HasWord(S_case, type)) =>
               /\ log = <<>>
               /\ Completed /\ outcome = "returned" /\ err = NoErr

C3_Witness ==
    /\ type = S_case \o S_alert
    /\ Completed /\ outcome = "returned"
    /\ Len(log) = 1 /\ log[1].url = ALERTS_ADD

\* C4 as stated: the invocation takes the branch, and issues the creation POST,
\* of the lower-case form of the configured mode.
C4_CaseInsensitive ==
    Completed =>
        LET lower == Lower(type)
        IN /\ HasWord(S_alert, lower) => (Len(log) >= 1 /\ log[1].url = ALERTS_ADD)
           /\ (~HasWord(S_alert, lower) /\ HasWord(S_case, lower)) =>
                  (Len(log) >= 1 /\ log[1].url = CASES_ADD)

\* C4, amended: the containment check is case-sensitive. A creation POST is
\* issued only when the mode contains "alert" or "case" in lower case; a mode
\* that contains them only in another letter case issues no HTTP call and
\* returns without an error.
C4_CaseSensitive ==
    Invoked =>
        /\ Len(log) >= 1 =>
               \/ log[1].url = ALERTS_ADD /\ HasWord(S_alert, type)
               \/ log[1].url = CASES_ADD /\ HasWord(S_case, type) /\ ~HasWord(S_alert, type)
        /\ (~HasWord(S_alert, type) /\ ~HasWord(S_case, type)) =>
               (log = <<>> /\ Completed /\ outcome = "returned")

C4_Witness ==
    /\ type = <<"C", "A", "S", "E">>
    /\ HasWord(S_case, Lower(type))
    /\ Completed /\ outcome = "returned" /\ log = <<>>

\* C5: every IOC-attach POST follows a case-creation POST that returned 200, and
\* its body carries, under cid, the case_id parsed from that response.
C5_CaseIdMerged ==
    \A k \in 1..Len(log) :
        log[k].url = IOC_ADD =>
            /\ k > 1
            /\ log[1].url = CASES_ADD /\ Got200(log[1])
            /\ "cid" \in DOMAIN log[k].json
            /\ log[k].json["cid"] = log[1].resp.body.case_id

C5_Witness ==
    /\ Len(log) = 3
    /\ log[1].resp.body.case_id = "102"
    /\ log[2].json["cid"] = "102" /\ log[3].json["cid"] = "102"
    /\ Completed /\ outcome = "returned"

\* C6 as stated: the error raised when an IOC-attach POST fails names the case
\* identifier and the index of the failing IOC record.
C6_NamesCaseAndIndex ==
    (Completed /\ outcome = "raised" /\ Len(log) >= 2) =>
        /\ "case_id" \in err.interpolated /\ err.case_id = case_id
        /\ \E n \in err.interpolated : n \notin {"case_id", "e"}

\* C7: a RequestException raised by any of the three POSTs ends the invocation
\* with an EAException whose message carries the exception; the call is the last
\* one of the invocation.
C7_TransportFailure ==
    \A k \in 1..Len(log) :
        log[k].resp.exc # None =>
            /\ k = Len(log)
            /\ Completed /\ outcome = "raised"
            /\ err.type = "EAException"
            /\ "e" \in err.interpolated /\ err.e = log[k].resp.exc

C7_Witness ==
    /\ Len(log) = 3
    /\ log[3].url = IOC_ADD /\ log[3].resp.exc = "SSLError"
    /\ outcome = "raised"

RECURSIVE NonEmptyResolved(_, _, _)
NonEmptyResolved(templates, m, k) ==
    IF k > Len(templates) THEN <<>>
    ELSE LET v == lookup_es_key(m, templates[k]["ioc_value"])
         IN (IF v \notin {None, ""}
             THEN <<SetItem(templates[k], "ioc_value", v)>> ELSE <<>>)
            \o NonEmptyResolved(templates, m, k + 1)

\* C8 as stated: the IOC record list is exactly the templates whose ioc_value
\* resolves to a present, non-empty value, in template order, with ioc_value
\* replaced, and a fully successful case invocation makes one IOC-attach POST
\* for each of them.
C8_OnlyNonEmptyResolved ==
    /\ pc = "CaseSubmit" => Deref(heap, iocs) = NonEmptyResolved(iocs0, match, 1)
    /\ (Completed /\ outcome = "returned" /\ Len(log) >= 1 /\ log[1].url = CASES_ADD) =>
           IocCallCount = Len(NonEmptyResolved(iocs0, match, 1))

Requests(calls) == [k \in 1..Len(calls) |-> [url |-> calls[k].url,
                                             verify |-> calls[k].verify,
                                             json |-> calls[k].json]]
Responses(calls) == [k \in 1..Len(calls) |-> calls[k].resp]

C10_SuppressionEndsWithInvocation ==
    Completed => ~warnings_disabled

====
